---- MODULE Spec2Model ----
(***************************************************************************)
(* Model of the WhatsApp webhook backend: the payload normalizer           *)
(* (src/src/utils/processor.js), the Message collection                    *)
(* (src/unnamed/part_001) and the Express handlers of src/src/index.js.    *)
(* index.js holds two revisions of the server: the first (lines 1-195)     *)
(* is called revision 1 here, the second (lines 197-372) revision 2.       *)
(*                                                                         *)
(* JSON values are tagged records so that a missing, null or wrongly       *)
(* typed field is a value of the model.  A string field that is absent,    *)
(* null or '' is the empty string: the code only ever tests such fields    *)
(* with || and !, which do not tell the three apart.  The opaque `raw`     *)
(* field is not kept.  The batch loader (src/unnamed/part_000) is a script *)
(* of its own; it handles a file in one step of the model.                 *)
(***************************************************************************)
EXTENDS Integers, Sequences, FiniteSets, TLC

VARIABLES
    store,       \* the processed_messages collection, in insertion order
    nextId,      \* number of documents created so far (source of _id and uuid)
    now,         \* the wall clock, in milliseconds
    req,         \* the in-flight /webhook requests, one record per slot
    timers,      \* pending setTimeout callbacks of the status simulation
    reply,       \* the response of the last send / delete / listing request
    payload,     \* the payload handed to the normalizer on its own
    normalized,  \* what the normalizer returned for it
    hist,        \* history, per slot: does the call repeat the slot's last
                 \* call, and the collection as the call found it
    early,       \* history: the ids of which a status record found no message
    fired        \* history: the last timer callback and what its update matched

vars == <<store, nextId, now, req, timers, reply, payload, normalized, hist,
          early, fired>>

----------------------------------------------------------------------------
(* Bounds *)

MaxDocs  == 3      \* documents ever created
MaxClock == 2      \* clock ticks (seconds) the clock may advance
MaxReq   == 2      \* concurrent /webhook requests
MaxBody  == 1      \* characters of a request body
MaxItems == 2      \* items of an array of a payload given to the normalizer

----------------------------------------------------------------------------
(* JSON values *)

Null == "<null>"

\* a || b on strings
OrElse(a, b) == IF a \in {"", Null} THEN b ELSE a

Absent   == [k |-> "absent", v |-> <<>>]
NotArray == [k |-> "other",  v |-> <<>>]
Arr(s)   == [k |-> "array",  v |-> s]

\* a message item of a payload; timestamp 0 stands for no timestamp
MsgItem(id, from, text, type, ts) ==
    [k |-> "object", id |-> id, message_id |-> "", from |-> from, to |-> "",
     text |-> text, body |-> "", type |-> type, timestamp |-> ts, context |-> ""]

\* a status item of a payload
StatusItem(id, status) ==
    [k |-> "object", id |-> id, message_id |-> "", meta_msg_id |-> "",
     recipient_id |-> "", status |-> status]

NullItem == [k |-> "null"]

\* change.value
Value(messages, statuses, contacts) ==
    [k |-> "object", messages |-> messages, statuses |-> statuses,
     contacts |-> contacts]
NoValue == [k |-> "absent", messages |-> Absent, statuses |-> Absent,
            contacts |-> <<>>]

Change(value) == [k |-> "object", value |-> value]
NullChange    == [k |-> "null", value |-> NoValue]

Entry(changes) == [k |-> "object", changes |-> changes]
NullEntry      == [k |-> "null", changes |-> Absent]

MetaData(entry) == [k |-> "object", entry |-> entry]
NoMetaData      == [k |-> "absent", entry |-> Absent]

Payload(entry, metaData, messages, statuses, contacts) ==
    [entry |-> entry, metaData |-> metaData, messages |-> messages,
     statuses |-> statuses, contacts |-> contacts]

EmptyPayload == Payload(Absent, NoMetaData, Absent, Absent, <<>>)

----------------------------------------------------------------------------
(* The normalizer: src/src/utils/processor.js *)

\* Number(m.timestamp) * 1000: seconds to the milliseconds of a Date
ToDate(seconds) == seconds * 1000

\* ctx.contacts?.[0]?.profile?.name and ctx.contacts?.[0]?.wa_id
ContactName(ctx)   == IF Len(ctx.contacts) > 0 THEN ctx.contacts[1].name ELSE ""
ContactNumber(ctx) == IF Len(ctx.contacts) > 0 THEN ctx.contacts[1].wa_id ELSE ""

mapMessage(m, ctx, t) ==
    [id          |-> OrElse(OrElse(m.id, m.message_id), Null),
     meta_msg_id |-> OrElse(m.context, Null),
     wa_id       |-> OrElse(OrElse(m.from, m.to), ""),
     from        |-> OrElse(m.from, ""),
     to          |-> OrElse(m.to, ""),
     name        |-> OrElse(ContactName(ctx), ""),
     number      |-> OrElse(ContactNumber(ctx), ""),
     body        |-> OrElse(OrElse(m.text, m.body), ""),
     type        |-> OrElse(m.type, "text"),
     timestamp   |-> IF m.timestamp # 0 THEN ToDate(m.timestamp) ELSE t]

mapStatus(s) ==
    [id          |-> OrElse(OrElse(s.id, s.message_id), Null),
     meta_msg_id |-> OrElse(s.meta_msg_id, Null),
     wa_id       |-> OrElse(s.recipient_id, ""),
     status      |-> OrElse(s.status, "unknown")]

\* the result of a call that may throw
Ok(out) == [err |-> FALSE, out |-> out]
Threw   == [err |-> TRUE, out |-> <<>>]
Join(a, b) == IF a.err \/ b.err THEN Threw ELSE Ok(a.out \o b.out)

\* items.forEach(x => out.push(map(x, ctx))): reading a property of a null
\* item throws a TypeError
pushAll(items, ctx, kind, t) ==
    IF \E i \in 1..Len(items) : items[i].k = "null"
    THEN Threw
    ELSE Ok([i \in 1..Len(items) |->
               IF kind = "messages" THEN mapMessage(items[i], ctx, t)
                                    ELSE mapStatus(items[i])])

\* const value = change.value || {}; value.messages?.forEach(...)
\* ?. only guards null and undefined: forEach of any other non-array is not
\* a function
fromValue(value, kind, t) ==
    LET field == IF value.k # "object" THEN Absent
                 ELSE IF kind = "messages" THEN value.messages
                 ELSE value.statuses
    IN  CASE field.k = "absent" -> Ok(<<>>)
          [] field.k = "other"  -> Threw
          [] field.k = "array"  -> pushAll(field.v, value, kind, t)

RECURSIVE fromChanges(_, _, _)
fromChanges(changes, kind, t) ==
    IF changes = <<>> THEN Ok(<<>>)
    ELSE IF Head(changes).k = "null" THEN Threw
    ELSE Join(fromValue(Head(changes).value, kind, t),
              fromChanges(Tail(changes), kind, t))

\* payload.entry.forEach(entry => entry.changes?.forEach(...))
RECURSIVE fromEntries(_, _, _)
fromEntries(entries, kind, t) ==
    IF entries = <<>> THEN Ok(<<>>)
    ELSE LET e == Head(entries)
             first == CASE e.k = "null"             -> Threw
                        [] e.changes.k = "absent"   -> Ok(<<>>)
                        [] e.changes.k = "other"    -> Threw
                        [] e.changes.k = "array"    ->
                               fromChanges(e.changes.v, kind, t)
         IN  Join(first, fromEntries(Tail(entries), kind, t))

\* an extractor that stops at the first shape that matches
extractFirstShape(p, t) ==
    IF p.entry.k = "array" THEN fromEntries(p.entry.v, "messages", t)
    ELSE IF p.metaData.k = "object" /\ p.metaData.entry.k = "array"
    THEN fromEntries(p.metaData.entry.v, "messages", t)
    ELSE IF p.messages.k = "array" THEN pushAll(p.messages.v, p, "messages", t)
    ELSE Ok(<<>>)

extractMessages(p, t) ==
    LET standard == IF p.entry.k = "array"
                    THEN fromEntries(p.entry.v, "messages", t) ELSE Ok(<<>>)
        custom   == IF p.metaData.k = "object" /\ p.metaData.entry.k = "array"
                    THEN fromEntries(p.metaData.entry.v, "messages", t)
                    ELSE Ok(<<>>)
        direct   == IF p.messages.k = "array"
                    THEN pushAll(p.messages.v, p, "messages", t) ELSE Ok(<<>>)
    IN  Join(Join(standard, custom), direct)

extractStatuses(p) ==
    LET standard == IF p.entry.k = "array"
                    THEN fromEntries(p.entry.v, "statuses", 0) ELSE Ok(<<>>)
        custom   == IF p.metaData.k = "object" /\ p.metaData.entry.k = "array"
                    THEN fromEntries(p.metaData.entry.v, "statuses", 0)
                    ELSE Ok(<<>>)
        direct   == IF p.statuses.k = "array"
                    THEN pushAll(p.statuses.v, p, "statuses", 0) ELSE Ok(<<>>)
    IN  Join(Join(standard, custom), direct)

----------------------------------------------------------------------------
(* The Message model: src/unnamed/part_001 *)

\* the values the schema's enum allows for status
StatusEnum == {"sent", "delivered", "read", "unknown"}

\* a document as the schema stores it
Doc(id, f) ==
    [_id |-> id, message_id |-> f.message_id, meta_msg_id |-> f.meta_msg_id,
     wa_id |-> f.wa_id, from |-> f.from, to |-> f.to, name |-> f.name,
     number |-> f.number, body |-> f.body, type |-> f.type,
     timestamp |-> f.timestamp, status |-> f.status]

\* validation on save: body is required (the empty string fails a required
\* String path) and status must be in the enum
Validates(f) == f.body # "" /\ f.status \in StatusEnum

\* pre('save'): an outgoing document without `to` gets its wa_id
preSave(f) ==
    IF f.from = "me" /\ f.to = "" /\ f.wa_id # ""
    THEN [f EXCEPT !.to = f.wa_id] ELSE f

\* positions of the documents matching { message_id: id }
Matching(s, id) == {i \in 1..Len(s) : s[i].message_id = id}

Min(S) == CHOOSE x \in S : \A y \in S : x <= y

\* Message.findOne({ message_id: id }): is there a match
findOne(s, id) == Matching(s, id) # {}

\* Message.create(doc): appends the saved document
create(s, id, f) == Append(s, Doc(id, preSave(f)))

\* an update that replaces the first match by a document holding the status
\* alone, as a replacement without $set does
replaceByStatus(s, id, status) ==
    IF \A i \in 1..Len(s) : s[i].message_id # id THEN s
    ELSE LET k == CHOOSE i \in 1..Len(s) :
                      /\ s[i].message_id = id
                      /\ \A j \in 1..(i - 1) : s[j].message_id # id
         IN  [s EXCEPT ![k] =
                 [_id |-> @._id, message_id |-> "", meta_msg_id |-> Null,
                  wa_id |-> "", from |-> "me", to |-> "", name |-> "",
                  number |-> "", body |-> "", type |-> "text",
                  timestamp |-> 0, status |-> status]]

\* findOneAndUpdate / updateOne({ message_id: id }, { status }): the first
\* match, if any, gets the status; update validators are off by default
setStatus(s, id, status) ==
    IF Matching(s, id) = {} THEN s
    ELSE [s EXCEPT ![Min(Matching(s, id))].status = status]

\* an update by _id that inserts a document when nothing matches, as with
\* { upsert: true }
upsertStatusById(s, id, status) ==
    IF \E i \in 1..Len(s) : s[i]._id = id
    THEN [i \in 1..Len(s) |->
            IF s[i]._id = id THEN [s[i] EXCEPT !.status = status] ELSE s[i]]
    ELSE Append(s, [_id |-> id, message_id |-> "", meta_msg_id |-> Null,
                    wa_id |-> "", from |-> "me", to |-> "", name |-> "",
                    number |-> "", body |-> "", type |-> "text",
                    timestamp |-> 0, status |-> status])

\* updateOne({ _id: id }, { $set: { status } })
setStatusById(s, id, status) ==
    [i \in 1..Len(s) |-> IF s[i]._id = id THEN [s[i] EXCEPT !.status = status]
                         ELSE s[i]]

\* a $set that carries the status 'sent' of the revision 1 document as well
setFieldsAndStatus(d, f) ==
    [d EXCEPT !.message_id = f.message_id, !.meta_msg_id = f.meta_msg_id,
              !.wa_id = f.wa_id, !.from = f.from, !.to = f.to,
              !.name = f.name, !.number = f.number, !.body = f.body,
              !.type = f.type, !.timestamp = f.timestamp, !.status = "sent"]

\* $set of the upsert of revision 2: every field of the document but status
setFields(d, f) ==
    [d EXCEPT !.message_id = f.message_id, !.meta_msg_id = f.meta_msg_id,
              !.wa_id = f.wa_id, !.from = f.from, !.to = f.to,
              !.name = f.name, !.number = f.number, !.body = f.body,
              !.type = f.type, !.timestamp = f.timestamp]

\* updateOne({ message_id }, { $set: doc }, { upsert: true }): the first
\* match is updated; with no match a document is inserted with the schema
\* defaults (status 'sent'); no validation runs
upsert(s, id, f) ==
    IF Matching(s, f.message_id) = {}
    THEN Append(s, Doc(id, f @@ [status |-> "sent"]))
    ELSE [s EXCEPT ![Min(Matching(s, f.message_id))] = setFields(@, f)]

\* deleteOne({ _id: id }) / findByIdAndDelete(id)
deleteById(s, id) == SelectSeq(s, LAMBDA d : d._id # id)

\* findById(id)
ById(s, id) == {i \in 1..Len(s) : s[i]._id = id}

----------------------------------------------------------------------------
(* POST /webhook: src/src/index.js, lines 29-74 and 225-268 *)

Reqs == 1..MaxReq

IdleReq ==
    [pc |-> "idle", rev |-> 0, payload |-> EmptyPayload, items |-> <<>>,
     i |-> 0, inserted |-> 0, updated |-> 0, res |-> "none"]

\* for (const x of items) { if (!x.id) continue; ... }: the first item at or
\* after position i that has an id
NextWithId(items, i) ==
    LET S == {j \in i..Len(items) : items[j].id # Null}
    IN  IF S = {} THEN Len(items) + 1 ELSE Min(S)

\* res.json(...) or, from the catch block, res.status(500).json(...)
Respond(q, res) == [q EXCEPT !.pc = "done", !.res = res, !.items = <<>>, !.i = 0]

\* the message loop is over: extractStatuses(payload) and the status loop
toStatuses(q) ==
    LET s == extractStatuses(q.payload)
        j == NextWithId(s.out, 1)
    IN  IF s.err THEN Respond(q, "error")
        ELSE IF j > Len(s.out) THEN Respond(q, "ok")
        ELSE [q EXCEPT !.pc = "status", !.items = s.out, !.i = j]

\* the message loop goes on from position i
toMessage(q, i) ==
    LET j == NextWithId(q.items, i)
    IN  IF j > Len(q.items) THEN toStatuses(q)
        ELSE [q EXCEPT !.pc = IF q.rev = 1 THEN "find" ELSE "upsert", !.i = j]

\* the status loop goes on after position q.i
toStatus(q) ==
    LET j == NextWithId(q.items, q.i + 1)
    IN  IF j > Len(q.items) THEN Respond(q, "ok") ELSE [q EXCEPT !.i = j]

\* const doc = {...} of revision 1
webhookDoc1(m) ==
    [message_id |-> m.id, meta_msg_id |-> OrElse(m.meta_msg_id, Null),
     wa_id |-> m.wa_id, from |-> m.from, to |-> m.to, name |-> m.name,
     number |-> m.number, body |-> m.body, type |-> m.type,
     timestamp |-> m.timestamp, status |-> "sent"]

\* const doc = {message_id, meta_msg_id, wa_id, ...m} of revision 2: the
\* schema drops m.id and m.raw, and no status is set
webhookDoc2(m) ==
    [message_id |-> m.id, meta_msg_id |-> OrElse(m.meta_msg_id, Null),
     wa_id |-> m.wa_id, from |-> m.from, to |-> m.to, name |-> m.name,
     number |-> m.number, body |-> m.body, type |-> m.type,
     timestamp |-> m.timestamp]

\* the handler starts: extractMessages(payload), up to the first await
WebhookBegin(r, p, rev) ==
    /\ req[r].pc \in {"idle", "done"}
    /\ LET m == extractMessages(p, now)
           q == [IdleReq EXCEPT !.rev = rev, !.payload = p, !.items = m.out]
       IN  req' = [req EXCEPT ![r] = IF m.err THEN Respond(q, "error")
                                     ELSE toMessage(q, 1)]
    /\ LET again == req[r].pc = "done" /\ req[r].payload = p /\ req[r].rev = rev
       IN  hist' = [hist EXCEPT ![r] = [repeat |-> again,
                                        before |-> IF again THEN store ELSE <<>>]]
    /\ UNCHANGED <<store, nextId, now, timers, reply, payload, normalized, early,
                   fired>>

Webhook1(r, p) == WebhookBegin(r, p, 1)
Webhook2(r, p) == WebhookBegin(r, p, 2)

\* await Message.findOne({ message_id: m.id })
Webhook1Find(r) ==
    LET q == req[r] IN
    /\ q.pc = "find"
    /\ req' = [req EXCEPT ![r] =
                 IF findOne(store, q.items[q.i].id) THEN toMessage(q, q.i + 1)
                 ELSE [q EXCEPT !.pc = "create"]]
    /\ UNCHANGED <<store, nextId, now, timers, reply, payload, normalized, hist, early, fired>>

\* await Message.create(doc); inserted++
Webhook1Create(r) ==
    LET q == req[r]
        f == webhookDoc1(q.items[q.i])
    IN
    /\ q.pc = "create"
    /\ IF Validates(f)
       THEN /\ nextId < MaxDocs
            /\ store' = create(store, nextId + 1, f)
            /\ nextId' = nextId + 1
            /\ req' = [req EXCEPT ![r] =
                         toMessage([q EXCEPT !.inserted = @ + 1], q.i + 1)]
       ELSE /\ req' = [req EXCEPT ![r] = Respond(q, "error")]
            /\ UNCHANGED <<store, nextId>>
    /\ UNCHANGED <<now, timers, reply, payload, normalized, hist, early, fired>>

\* await Message.updateOne({ message_id }, { $set: doc }, { upsert: true });
\* inserted++
Webhook2Upsert(r) ==
    LET q == req[r]
        f == webhookDoc2(q.items[q.i])
        isNew == Matching(store, f.message_id) = {}
    IN
    /\ q.pc = "upsert"
    /\ isNew => nextId < MaxDocs
    /\ store' = upsert(store, nextId + 1, f)
    /\ nextId' = IF isNew THEN nextId + 1 ELSE nextId
    /\ req' = [req EXCEPT ![r] =
                 toMessage([q EXCEPT !.inserted = @ + 1], q.i + 1)]
    /\ UNCHANGED <<now, timers, reply, payload, normalized, hist, early, fired>>

\* const updatedMsg = await Message.findOneAndUpdate({ message_id: s.id },
\* { status: s.status }); if (updatedMsg) updated++
Webhook1Status(r) ==
    LET q == req[r]
        s == q.items[q.i]
    IN
    /\ q.pc = "status" /\ q.rev = 1
    /\ store' = setStatus(store, s.id, s.status)
    /\ req' = [req EXCEPT ![r] =
                 toStatus([q EXCEPT !.updated =
                             IF findOne(store, s.id) THEN @ + 1 ELSE @])]
    /\ early' = IF findOne(store, s.id) THEN early ELSE early \cup {s.id}
    /\ UNCHANGED <<nextId, now, timers, reply, payload, normalized, hist, fired>>

\* await Message.updateOne({ message_id: s.id }, { $set: { status } });
\* updated++
Webhook2Status(r) ==
    LET q == req[r]
        s == q.items[q.i]
    IN
    /\ q.pc = "status" /\ q.rev = 2
    /\ store' = setStatus(store, s.id, s.status)
    /\ req' = [req EXCEPT ![r] = toStatus([q EXCEPT !.updated = @ + 1])]
    /\ early' = IF findOne(store, s.id) THEN early ELSE early \cup {s.id}
    /\ UNCHANGED <<nextId, now, timers, reply, payload, normalized, hist, fired>>

----------------------------------------------------------------------------
(* The batch loader: src/unnamed/part_000.  It is a script of its own that   *)
(* handles one file after the other; a file is one step here.  The files    *)
(* are those of payload_type "whatsapp_webhook" (others return at once),    *)
(* and their message items carry a timestamp.                               *)

\* new Message({...}) of the loader
loaderDoc(m, wa, name) ==
    [message_id |-> m.id, meta_msg_id |-> Null, wa_id |-> wa, from |-> m.from,
     to |-> "unknown", name |-> name, number |-> wa,
     body |-> OrElse(m.text, ""), type |-> OrElse(m.type, "text"),
     timestamp |-> ToDate(m.timestamp), status |-> "sent"]

\* where the loader stands: the collection, the documents created so far,
\* and whether an exception has reached the catch of processFile
Loaded(s, n)  == [err |-> FALSE, s |-> s, n |-> n]
Aborted(s, n) == [err |-> TRUE, s |-> s, n |-> n]

\* for (const msgData of value.messages): findOne, then save in a try of
\* its own, so a rejected save is logged and the loop goes on
RECURSIVE loadMessages(_, _, _, _, _)
loadMessages(items, wa, name, s, n) ==
    IF items = <<>> THEN Loaded(s, n)
    ELSE IF Head(items).k = "null" THEN Aborted(s, n)
    ELSE LET f == loaderDoc(Head(items), wa, name) IN
         IF findOne(s, Head(items).id) \/ ~Validates(f)
         THEN loadMessages(Tail(items), wa, name, s, n)
         ELSE loadMessages(Tail(items), wa, name, create(s, n + 1, f), n + 1)

\* for (const status of value.statuses): findOneAndUpdate
RECURSIVE loadStatuses(_, _, _)
loadStatuses(items, s, n) ==
    IF items = <<>> THEN Loaded(s, n)
    ELSE IF Head(items).k = "null" THEN Aborted(s, n)
    ELSE loadStatuses(Tail(items),
                      setStatus(s, Head(items).id, Head(items).status), n)

\* for (const change of entry.changes || []): the messages of the change,
\* then the statuses of the change
RECURSIVE loadChanges(_, _, _)
loadChanges(changes, s, n) ==
    IF changes = <<>> THEN Loaded(s, n)
    ELSE IF Head(changes).k = "null" \/ Head(changes).value.k # "object"
    THEN Aborted(s, n)
    ELSE LET value == Head(changes).value
             wa == OrElse(ContactNumber(value),
                          IF value.messages.k = "array"
                             /\ value.messages.v # <<>>
                             /\ value.messages.v[1].k = "object"
                          THEN value.messages.v[1].from ELSE "")
             ms == IF value.messages.k = "array"
                   THEN loadMessages(value.messages.v, wa,
                                     OrElse(ContactName(value), ""), s, n)
                   ELSE Loaded(s, n)
             ss == IF ms.err \/ value.statuses.k # "array" THEN ms
                   ELSE loadStatuses(value.statuses.v, ms.s, ms.n)
         IN  IF ss.err THEN ss ELSE loadChanges(Tail(changes), ss.s, ss.n)

\* processFile: const entry = payload.metaData?.entry?.[0]
processFile(p, s, n) ==
    IF p.metaData.k # "object" \/ p.metaData.entry.k # "array"
       \/ p.metaData.entry.v = <<>> THEN Loaded(s, n)
    ELSE LET entry == p.metaData.entry.v[1] IN
         CASE entry.k = "null"           -> Loaded(s, n)
           [] entry.changes.k = "absent" -> Loaded(s, n)
           [] entry.changes.k = "other"  -> Aborted(s, n)
           [] entry.changes.k = "array"  -> loadChanges(entry.changes.v, s, n)

\* await processFile(path.join(dir, file))
ProcessFile(p) ==
    LET r == processFile(p, store, nextId) IN
    /\ r.n <= MaxDocs
    /\ store' = r.s
    /\ nextId' = r.n
    /\ UNCHANGED <<now, req, timers, reply, payload, normalized, hist, early,
                   fired>>

----------------------------------------------------------------------------
(* Sending, the status simulation and deleting: src/src/index.js *)

NoReply == [op |-> "none", code |-> 0, arg |-> "", list |-> <<>>]

\* message_id: `out-${uuidv4()}`
OutId(n) == "out-" \o ToString(n)

\* the document of Message.create({...}) in the two send handlers
sendDoc(n, wa, body, name, t) ==
    [message_id |-> OutId(n), meta_msg_id |-> Null, wa_id |-> wa,
     from |-> "me", to |-> wa, name |-> name, number |-> "", body |-> body,
     type |-> "text", timestamp |-> t, status |-> "sent"]

\* timers that set read after 2 s and delivered after 4 s
simulationSwapped(id) == {[id |-> id, status |-> "read", delay |-> 2000],
                          [id |-> id, status |-> "delivered", delay |-> 4000]}

\* the two setTimeout callbacks scheduled for a sent message: delivered
\* after 2000 ms, read after 4000 ms
simulation(id) == {[id |-> id, status |-> "delivered", delay |-> 2000],
                   [id |-> id, status |-> "read", delay |-> 4000]}

\* both send handlers: if (!body) return 400; create; schedule; 200
sendHandler(wa, body, name) ==
    /\ IF body = ""
       THEN /\ reply' = [NoReply EXCEPT !.op = "send", !.code = 400, !.arg = body]
            /\ UNCHANGED <<store, nextId, timers>>
       ELSE LET f == sendDoc(nextId + 1, wa, body, name, now) IN
            /\ nextId < MaxDocs
            /\ IF Validates(f)
               THEN /\ store' = create(store, nextId + 1, f)
                    /\ nextId' = nextId + 1
                    /\ timers' = timers \cup simulation(nextId + 1)
                    /\ reply' = [NoReply EXCEPT !.op = "send", !.code = 200,
                                                !.arg = body]
               ELSE /\ reply' = [NoReply EXCEPT !.op = "send", !.code = 500,
                                                !.arg = body]
                    /\ UNCHANGED <<store, nextId, timers>>
    /\ UNCHANGED <<now, req, payload, normalized, hist, early, fired>>

\* POST /conversations/:wa_id/messages with { body, name }
SendMessage1(wa, body, name) == sendHandler(wa, body, name)

\* POST /send/:wa_id with { body }: no name is stored
SendMessage2(wa, body) == sendHandler(wa, body, "")

\* a timer callback runs its updateOne: the timers of a message are set at
\* the same moment, so the one with the shorter delay is due, and runs, first
TimerFire(t) ==
    /\ t \in timers
    /\ \A u \in timers : u.id = t.id => u.delay >= t.delay
    /\ store' = setStatusById(store, t.id, t.status)
    /\ timers' = timers \ {t}
    /\ fired' = [id |-> t.id, status |-> t.status,
                 matched |-> Cardinality(ById(store, t.id))]
    /\ UNCHANGED <<nextId, now, req, reply, payload, normalized, hist, early>>

\* DELETE /messages/:id of revision 1: 404, 403 for a message of another
\* sender, else deleteOne
Delete1(id) ==
    /\ IF ById(store, id) = {}
       THEN /\ reply' = [NoReply EXCEPT !.op = "delete", !.code = 404]
            /\ UNCHANGED store
       ELSE IF \E i \in ById(store, id) : store[i].from # "me"
       THEN /\ reply' = [NoReply EXCEPT !.op = "delete", !.code = 403]
            /\ UNCHANGED store
       ELSE /\ reply' = [NoReply EXCEPT !.op = "delete", !.code = 200]
            /\ store' = deleteById(store, id)
    /\ UNCHANGED <<nextId, now, req, timers, payload, normalized, hist, early, fired>>

\* DELETE /messages/:id of revision 2: findByIdAndDelete
Delete2(id) ==
    /\ IF ById(store, id) = {}
       THEN /\ reply' = [NoReply EXCEPT !.op = "delete", !.code = 404]
            /\ UNCHANGED store
       ELSE /\ reply' = [NoReply EXCEPT !.op = "delete", !.code = 200]
            /\ store' = deleteById(store, id)
    /\ UNCHANGED <<nextId, now, req, timers, payload, normalized, hist, early, fired>>

\* time passes
Tick ==
    /\ now < ToDate(1 + MaxClock)
    /\ now' = now + ToDate(1)
    /\ UNCHANGED <<store, nextId, req, timers, reply, payload, normalized, hist, early, fired>>

----------------------------------------------------------------------------
(* GET /conversations: src/src/index.js, lines 83-121 and 277-304 *)

WaIds(s) == {s[i].wa_id : i \in 1..Len(s)}
Group(s, w) == {i \in 1..Len(s) : s[i].wa_id = w}
Max(S) == CHOOSE x \in S : \A y \in S : x >= y

\* the orders in which a $sort may leave the groups
Orderings(S) ==
    {o \in [1..Cardinality(S) -> S] :
        \A i, j \in 1..Cardinality(S) : i # j => o[i] # o[j]}

\* { $sort: { "lastMessage.timestamp": -1 } }
SortedDesc(l) ==
    \A i, j \in 1..Len(l) :
        i < j => l[i].lastMessage.timestamp >= l[j].lastMessage.timestamp

\* $group with $last: "$$ROOT" over the collection as stored
lastOfGroup(s, w) == s[Max(Group(s, w))]

\* $sort by timestamp descending, then $group with $first: "$$ROOT": a
\* document of the group with the greatest timestamp
firstOfSorted(s, w) ==
    {s[i] : i \in {j \in Group(s, w) :
                     \A k \in Group(s, w) : s[j].timestamp >= s[k].timestamp}}

\* the $project of revision 1
project1(w, d) ==
    [wa_id |-> w, name |-> d.name,
     lastMessage |-> [_id |-> d._id, body |-> d.body, timestamp |-> d.timestamp,
                      status |-> d.status, name |-> d.name, from |-> d.from]]

\* revision 1
Conversations1 ==
    /\ \E o \in Orderings(WaIds(store)) :
         LET l == [n \in DOMAIN o |-> project1(o[n], lastOfGroup(store, o[n]))]
         IN  /\ SortedDesc(l)
             /\ reply' = [NoReply EXCEPT !.op = "conversations", !.code = 200,
                                         !.list = l]
    /\ UNCHANGED <<store, nextId, now, req, timers, payload, normalized, hist, early, fired>>

\* revision 2
Conversations2 ==
    /\ \E o \in Orderings(WaIds(store)) :
       \E pick \in [WaIds(store) -> {store[i] : i \in 1..Len(store)}] :
         LET l == [n \in DOMAIN o |->
                     [wa_id |-> o[n], lastMessage |-> pick[o[n]]]]
         IN  /\ \A w \in WaIds(store) : pick[w] \in firstOfSorted(store, w)
             /\ SortedDesc(l)
             /\ reply' = [NoReply EXCEPT !.op = "conversations", !.code = 200,
                                         !.list = l]
    /\ UNCHANGED <<store, nextId, now, req, timers, payload, normalized, hist, early, fired>>

----------------------------------------------------------------------------
(* Inputs *)

\* request bodies of a send: the empty string, blanks and text
RECURSIVE Str(_)
Str(chars) == IF chars = <<>> THEN "" ELSE Head(chars) \o Str(Tail(chars))
BodyChars  == UNION {[1..n -> {" ", "h"}] : n \in 0..MaxBody}
BlankChars == UNION {[1..n -> {" "}] : n \in 0..MaxBody}
BodyInputs == {Str(c) : c \in BodyChars}
BlankBodies == {Str(c) : c \in BlankChars}

\* message items: a text, its redelivery with other content and no
\* timestamp, an older text of the same contact, an image (no text), a text
\* of another contact, and an item without an id
Hello   == MsgItem("m1", "A", "hi", "", 2)
Again   == MsgItem("m1", "A", "yo", "image", 0)
Older   == MsgItem("m2", "A", "hi", "", 1)
Image   == MsgItem("m2", "B", "", "image", 1)
Other   == MsgItem("m3", "B", "ok", "", 1)
NoIdMsg == MsgItem("", "B", "hi", "", 1)

Contact == [name |-> "Al", wa_id |-> "A"]

Flat(ms, ss) == Payload(Absent, NoMetaData, Arr(ms), Arr(ss), <<>>)

Standard(ms, ss) ==
    Arr(<<Entry(Arr(<<Change(Value(Arr(ms), Arr(ss), <<Contact>>))>>))>>)

WebhookPayloads ==
    {Flat(<<m>>, <<>>) : m \in {Hello, Again, Older, NoIdMsg}}
    \cup {Flat(<<>>, <<StatusItem("m1", s)>>) :
            s \in {"sent", "delivered", "read", "", "failed"}}
    \cup {Flat(<<Image, Hello>>, <<>>),
          Flat(<<Older>>, <<StatusItem("m2", "delivered")>>),
          Flat(<<>>, <<StatusItem("", "read")>>),
          Flat(<<NullItem>>, <<>>),
          Flat(<<Older>>, <<NullItem>>),
          Payload(Standard(<<Hello>>, <<StatusItem("m1", "read")>>),
                  NoMetaData, Arr(<<Older>>), Absent, <<>>)}

----------------------------------------------------------------------------
(* The system *)

NotNormalized ==
    [mdone |-> FALSE, messages |-> Ok(<<>>), sdone |-> FALSE,
     statuses |-> Ok(<<>>)]
NoHist == [repeat |-> FALSE, before |-> <<>>]
NoFire == [id |-> 0, status |-> "", matched |-> 0]

Init ==
    /\ store = <<>>
    /\ nextId = 0
    /\ now = ToDate(1)
    /\ req = [r \in Reqs |-> IdleReq]
    /\ timers = {}
    /\ reply = NoReply
    /\ payload = EmptyPayload
    /\ normalized = NotNormalized
    /\ hist = [r \in Reqs |-> NoHist]
    /\ early = {}
    /\ fired = NoFire

\* webhook deliveries handled one at a time by revision 1
NextIngest1 ==
    \/ \E p \in WebhookPayloads : Webhook1(1, p)
    \/ Webhook1Find(1)
    \/ Webhook1Create(1)
    \/ Webhook1Status(1)
    \/ Tick

SpecIngest1 == Init /\ [][NextIngest1]_vars

\* webhook deliveries handled one at a time by revision 2
NextIngest2 ==
    \/ \E p \in WebhookPayloads : Webhook2(1, p)
    \/ Webhook2Upsert(1)
    \/ Webhook2Status(1)
    \/ Tick

SpecIngest2 == Init /\ [][NextIngest2]_vars

\* webhook deliveries handled one at a time, each by either revision
NextIngest == NextIngest1 \/ NextIngest2

SpecIngest == Init /\ [][NextIngest]_vars

\* webhook deliveries in flight at once, handled by revision 1
RacePayloads ==
    {Flat(<<Hello>>, <<>>), Flat(<<Again>>, <<>>),
     Flat(<<>>, <<StatusItem("m1", "read")>>)}

NextRace1 ==
    \/ \E r \in Reqs, p \in RacePayloads : Webhook1(r, p)
    \/ \E r \in Reqs : Webhook1Find(r)
    \/ \E r \in Reqs : Webhook1Create(r)
    \/ \E r \in Reqs : Webhook1Status(r)

SpecRace1 == Init /\ [][NextRace1]_vars

\* sending, the simulated transitions and deleting
NextSend ==
    \/ \E b \in BodyInputs : SendMessage1("A", b, "Al")
    \/ \E b \in BodyInputs : SendMessage2("A", b)
    \/ \E t \in timers : TimerFire(t)
    \/ \E id \in 1..MaxDocs : Delete1(id)
    \/ \E id \in 1..MaxDocs : Delete2(id)

SpecSend == Init /\ [][NextSend]_vars

\* messages are sent, the simulated transitions run and messages are
\* deleted; the event loop runs every callback that is due
NextSim ==
    \/ SendMessage1("A", "h", "")
    \/ SendMessage2("A", "h")
    \/ \E t \in timers : TimerFire(t)
    \/ \E id \in 1..MaxDocs : Delete2(id)

SpecSim ==
    Init /\ [][NextSim]_vars /\ WF_vars(\E t \in timers : TimerFire(t))

\* messages come in, messages are sent, and messages are deleted by
\* revision 1
DeletePayloads == {Flat(<<Hello>>, <<>>), Flat(<<Other>>, <<>>)}

NextDelete1 ==
    \/ \E p \in DeletePayloads : Webhook1(1, p)
    \/ Webhook1Find(1)
    \/ Webhook1Create(1)
    \/ SendMessage1("A", "h", "Al")
    \/ \E id \in 1..MaxDocs : Delete1(id)

SpecDelete1 == Init /\ [][NextDelete1]_vars

\* the same with revision 2
NextDelete2 ==
    \/ \E p \in DeletePayloads : Webhook2(1, p)
    \/ Webhook2Upsert(1)
    \/ SendMessage2("A", "h")
    \/ \E id \in 1..MaxDocs : Delete2(id)

SpecDelete2 == Init /\ [][NextDelete2]_vars

\* files handled by the batch loader: a message with its status, a status
\* in a change before the change of its message, an image next to a text,
\* statuses alone, and a file with a null change
File(changes) ==
    Payload(Absent, MetaData(Arr(<<Entry(Arr(changes))>>)), Absent, Absent, <<>>)

LoadFiles ==
    {File(<<Change(Value(Arr(<<Hello>>), Arr(<<StatusItem("m1", "read")>>),
                         <<Contact>>))>>),
     File(<<Change(Value(Absent, Arr(<<StatusItem("m2", "delivered")>>), <<>>)),
            Change(Value(Arr(<<Older>>), Absent, <<>>))>>),
     File(<<Change(Value(Arr(<<Image, Other>>), Absent, <<>>))>>),
     File(<<NullChange>>)}
    \cup {File(<<Change(Value(Absent, Arr(<<StatusItem(id, st)>>), <<>>))>>) :
            id \in {"m1", "m2", "m3"}, st \in {"sent", "delivered", "read"}}

NextLoad == \E p \in LoadFiles : ProcessFile(p)

SpecLoad == Init /\ [][NextLoad]_vars

\* messages come in and the conversations are listed
ListPayloads ==
    {Flat(<<m>>, <<>>) : m \in {Hello, Again, Older, Other}}

NextList1 ==
    \/ \E p \in ListPayloads : Webhook1(1, p)
    \/ Webhook1Find(1)
    \/ Webhook1Create(1)
    \/ Conversations1
    \/ Tick

SpecList1 == Init /\ [][NextList1]_vars

NextList2 ==
    \/ \E p \in ListPayloads : Webhook2(1, p)
    \/ Webhook2Upsert(1)
    \/ Conversations2
    \/ Tick

SpecList2 == Init /\ [][NextList2]_vars

\* the normalizer on its own, over well-formed and malformed payloads
SeqsUpTo(S, n) == UNION {[1..m -> S] : m \in 0..n}

MsgFields ==
    {Absent, NotArray}
    \cup {Arr(q) : q \in SeqsUpTo({Hello, NoIdMsg, NullItem}, MaxItems)}
StatusFields ==
    {Absent, NotArray}
    \cup {Arr(q) : q \in SeqsUpTo({StatusItem("m1", "read"), NullItem}, MaxItems)}

Values ==
    {NoValue,
     Value(Arr(<<Older>>), Arr(<<StatusItem("m2", "")>>), <<Contact>>),
     Value(NotArray, Absent, <<>>),
     Value(Arr(<<Older, Again>>), NotArray, <<>>)}

EntryFields ==
    {Absent, NotArray, Arr(<<NullEntry>>), Arr(<<Entry(Absent)>>),
     Arr(<<Entry(NotArray)>>), Arr(<<Entry(Arr(<<NullChange>>))>>),
     Arr(<<Entry(Arr(<<Change(Value(Arr(<<Again>>), Absent, <<>>))>>)),
           Entry(Arr(<<Change(NoValue),
                       Change(Value(Arr(<<Older>>), Absent, <<>>))>>))>>)}
    \cup {Arr(<<Entry(Arr(<<Change(v)>>))>>) : v \in Values}

MetaFields ==
    {NoMetaData, MetaData(NotArray),
     MetaData(Arr(<<Entry(Arr(<<Change(
         Value(Arr(<<Image>>), Arr(<<StatusItem("m2", "sent")>>), <<>>))>>))>>))}

NormPayloads ==
    {Payload(e, md, m, st, <<>>) :
        e \in EntryFields, md \in MetaFields, m \in MsgFields,
        st \in StatusFields}

InitNorm ==
    /\ store = <<>>
    /\ nextId = 0
    /\ now = ToDate(1)
    /\ req = [r \in Reqs |-> IdleReq]
    /\ timers = {}
    /\ reply = NoReply
    /\ payload \in NormPayloads
    /\ normalized = NotNormalized
    /\ hist = [r \in Reqs |-> NoHist]
    /\ early = {}
    /\ fired = NoFire

\* const messages = extractMessages(payload)
NormalizeMessages ==
    /\ ~normalized.mdone
    /\ normalized' = [normalized EXCEPT !.mdone = TRUE,
                         !.messages = extractMessages(payload, now)]
    /\ UNCHANGED <<store, nextId, now, req, timers, reply, payload, hist, early, fired>>

\* const statuses = extractStatuses(payload)
NormalizeStatuses ==
    /\ ~normalized.sdone
    /\ normalized' = [normalized EXCEPT !.sdone = TRUE,
                         !.statuses = extractStatuses(payload)]
    /\ UNCHANGED <<store, nextId, now, req, timers, reply, payload, hist, early, fired>>

NextNorm == NormalizeMessages \/ NormalizeStatuses

SpecNorm == InitNorm /\ [][NextNorm]_vars

----------------------------------------------------------------------------
(* Properties of ingestion *)

\* the lifecycle rank of a status; anything but sent, delivered, read is 0
Lifecycle == {"sent", "delivered", "read"}
Rank(status) ==
    CASE status = "sent" -> 1
      [] status = "delivered" -> 2
      [] status = "read" -> 3
      [] OTHER -> 0

\* slot r takes a step of its message loop / of its status loop
MessageStep(r) == req[r].pc \in {"find", "create", "upsert"} /\ req'[r] # req[r]
StatusStep(r)  == req[r].pc = "status" /\ req'[r] # req[r]

\* C2: a call that repeats the payload of the call before it, with nothing
\* in between, leaves the collection as it found it, and where counts are
\* returned it reports 0 inserted.
IdempotentIngest ==
    \A r \in Reqs :
        req[r].pc = "done" /\ hist[r].repeat =>
            /\ store = hist[r].before
            /\ req[r].res = "ok" /\ req[r].rev = 1 => req[r].inserted = 0

\* C3: no step lowers the lifecycle rank (sent < delivered < read) of a
\* persisted message's status.
StatusNeverRegresses ==
    [][\A i \in 1..Len(store), j \in 1..Len(store') :
          /\ store[i]._id = store'[j]._id
          /\ store[i].status \in Lifecycle
          /\ store'[j].status \in Lifecycle
          => Rank(store'[j].status) >= Rank(store[i].status)]_vars

\* the status update the rank rule asks for: applied iff the incoming rank
\* is at least the persisted one
RankRule(s, id, status) ==
    IF Matching(s, id) = {} THEN s
    ELSE LET i == Min(Matching(s, id))
         IN  IF Rank(status) >= Rank(s[i].status)
             THEN [s EXCEPT ![i].status = status] ELSE s

\* C4: a status record for an id not in the collection changes nothing and
\* is no error; and once a message of an id whose status came early is
\* there, a status record for it is applied as the rank rule says.
EarlyStatusTolerated ==
    [][\A r \in Reqs :
          StatusStep(r) =>
            LET s == req[r].items[req[r].i] IN
            /\ ~findOne(store, s.id) =>
                   store' = store /\ req'[r].res # "error"
            /\ findOne(store, s.id) /\ s.id \in early /\ s.status \in Lifecycle
                 /\ store[Min(Matching(store, s.id))].status \in Lifecycle =>
                   store' = RankRule(store, s.id, s.status)]_vars

\* C12: no step replaces a persisted status of sent, delivered or read by
\* "unknown", the status of a record that carries none.
UnknownNeverReplaces ==
    [][\A i \in 1..Len(store), j \in 1..Len(store') :
          /\ store[i]._id = store'[j]._id
          /\ store[i].status \in Lifecycle
          => store'[j].status # "unknown"]_vars

\* C14: a status record that is applied changes the status field of the
\* message it targets and nothing else: every other field of that message
\* and every other message stay as they were.
StatusUpdateFrame ==
    [][\A r \in Reqs :
          StatusStep(r) =>
            LET hit == Matching(store, req[r].items[req[r].i].id) IN
            /\ Len(store') = Len(store)
            /\ \A i \in 1..Len(store) :
                   IF hit # {} /\ i = Min(hit)
                   THEN store'[i] = [store[i] EXCEPT !.status = store'[i].status]
                   ELSE store'[i] = store[i]]_vars

\* a status record has been applied to one of two persisted messages
StatusApplied ==
    \E r \in Reqs :
        /\ req[r].pc = "done" /\ req[r].res = "ok" /\ req[r].updated > 0
        /\ req[r].payload = Flat(<<>>, <<StatusItem("m1", "delivered")>>)
        /\ Len(store) >= 2
        /\ \E i \in Matching(store, "m1") : store[i].status = "delivered"

\* C15: reconciling a message item whose id is persisted with other content
\* leaves the persisted body, name and type equal to the item's, and the
\* call counts the record as updated.
LastWriteWinsContent ==
    [][\A r \in Reqs :
          MessageStep(r) =>
            LET m == req[r].items[req[r].i]
                hit == Matching(store, m.id)
            IN  hit # {} /\ <<store[Min(hit)].body, store[Min(hit)].name,
                              store[Min(hit)].type>> # <<m.body, m.name, m.type>>
                =>  /\ Min(hit) <= Len(store')
                    /\ store'[Min(hit)].body = m.body
                    /\ store'[Min(hit)].name = m.name
                    /\ store'[Min(hit)].type = m.type
                    /\ req'[r].updated = req[r].updated + 1]_vars

\* C5: reconciling a message item whose id is already persisted leaves the
\* status of the persisted message as it was.
DuplicateKeepsStatus ==
    [][\A r \in Reqs :
          MessageStep(r) =>
            \A i \in Matching(store, req[r].items[req[r].i].id) :
                /\ i <= Len(store')
                /\ store'[i]._id = store[i]._id
                /\ store'[i].status = store[i].status]_vars

\* a redelivered message has been reconciled against a message that was
\* already delivered or read
DuplicateOfAdvanced ==
    \E r \in Reqs :
        /\ req[r].pc = "done" /\ req[r].res = "ok"
        /\ req[r].payload = Flat(<<Again>>, <<>>)
        /\ \E i \in Matching(store, "m1") :
               store[i].status \in {"delivered", "read"}

\* C17: the counters of a call follow what the call does: inserted goes up
\* with every message created, updated with every duplicate message merged
\* and every status record applied to a message, and with nothing else.
CountsAccount ==
    [][\A r \in Reqs :
          LET hit == Matching(store, req[r].items[req[r].i].id) IN
          /\ MessageStep(r) =>
                /\ req'[r].inserted - req[r].inserted = Len(store') - Len(store)
                /\ req'[r].updated - req[r].updated = IF hit # {} THEN 1 ELSE 0
          /\ StatusStep(r) =>
                /\ req'[r].inserted = req[r].inserted
                /\ req'[r].updated - req[r].updated = IF hit # {} THEN 1 ELSE 0]_vars

\* C20: the status of every persisted message is one of the values of the
\* schema's enum: sent, delivered, read, unknown.
StatusInEnum ==
    \A i \in 1..Len(store) : store[i].status \in StatusEnum

\* C6: when the store rejects a record of a payload, the call still
\* returns counts and every other message of the payload is persisted.
PartialFailureIsolated ==
    \A r \in Reqs :
        LET m == extractMessages(req[r].payload, now) IN
        req[r].pc = "done" /\ ~m.err /\ ~extractStatuses(req[r].payload).err =>
            /\ req[r].res = "ok"
            /\ \A k \in 1..Len(m.out) :
                   m.out[k].id # Null /\ m.out[k].body # "" =>
                       findOne(store, m.out[k].id)

----------------------------------------------------------------------------
(* Properties of concurrent ingestion *)

\* C1: the collection never holds two messages with the same message id,
\* however the steps of concurrent webhook calls interleave.
OneMessagePerId ==
    \A i, j \in 1..Len(store) :
        store[i].message_id = store[j].message_id => i = j

----------------------------------------------------------------------------
(* Properties of sending *)

\* C7: a send whose body is empty or only blanks is rejected: it creates
\* no message and schedules no transition.
BlankBodyRejected ==
    [][reply'.op = "send" /\ reply'.arg \in BlankBodies
         /\ (reply' # reply \/ nextId' # nextId)
       => reply'.code = 400 /\ store' = store /\ timers' = timers]_vars

\* C11: a simulated transition that runs after its message was deleted
\* changes nothing: no message is created again, no other message changes,
\* and the callback's update completes having matched no document.
TimerAfterDeleteIsNoOp ==
    [][\A t \in timers :
          timers' = timers \ {t} /\ ById(store, t.id) = {} =>
              /\ store' = store
              /\ fired' = [id |-> t.id, status |-> t.status, matched |-> 0]]_vars

\* a transition has run for a deleted message while another message is there
TimerFiredAfterDelete ==
    /\ fired.id # 0 /\ fired.matched = 0
    /\ ById(store, fired.id) = {}
    /\ store # <<>>

DeleteUnconditional ==
    [][\A id \in 1..MaxDocs :
          Delete1(id) \/ Delete2(id) =>
              IF ById(store, id) # {}
              THEN store' = deleteById(store, id) /\ reply'.code = 200
              ELSE store' = store /\ reply'.code = 404]_vars

----------------------------------------------------------------------------
(* Properties of the normalizer *)

\* the items of a field that is an array, none otherwise
ItemsOf(field) == IF field.k = "array" THEN field.v ELSE <<>>

RECURSIVE Concat(_)
Concat(seqs) == IF seqs = <<>> THEN <<>> ELSE Head(seqs) \o Concat(Tail(seqs))

\* the message (or status) items under entry[].changes[].value, in source
\* order
NestedItems(entryField, kind) ==
    Concat([e \in 1..Len(ItemsOf(entryField)) |->
        LET changes == ItemsOf(ItemsOf(entryField)[e].changes) IN
        Concat([c \in 1..Len(changes) |->
            IF kind = "messages" THEN ItemsOf(changes[c].value.messages)
            ELSE ItemsOf(changes[c].value.statuses)])])

\* every source item of the payload: entry[] first, then metaData.entry[],
\* then the flat array
SourceItems(p, kind) ==
    NestedItems(p.entry, kind) \o NestedItems(p.metaData.entry, kind)
    \o ItemsOf(IF kind = "messages" THEN p.messages ELSE p.statuses)

\* record k of the output was made from item k of the source
FromItems(out, items, kind) ==
    /\ Len(out) = Len(items)
    /\ \A k \in 1..Len(out) :
         /\ out[k].id = OrElse(items[k].id, Null)
         /\ kind = "messages" => out[k].body = items[k].text
         /\ kind = "statuses" => out[k].status = OrElse(items[k].status, "unknown")

\* C8: what the normalizer returns holds one record per source item of
\* every shape the payload matches, entry[] first, then metaData.entry[],
\* then the flat arrays, in source order within each.
EveryShapeExtracted ==
    /\ normalized.mdone /\ ~normalized.messages.err =>
           FromItems(normalized.messages.out, SourceItems(payload, "messages"),
                     "messages")
    /\ normalized.sdone /\ ~normalized.statuses.err =>
           FromItems(normalized.statuses.out, SourceItems(payload, "statuses"),
                     "statuses")

\* a payload with messages under entry[], under metaData.entry[] and in the
\* flat array has been normalized
ThreeShapesExtracted ==
    /\ normalized.mdone /\ ~normalized.messages.err
    /\ NestedItems(payload.entry, "messages") # <<>>
    /\ NestedItems(payload.metaData.entry, "messages") # <<>>
    /\ Len(ItemsOf(payload.messages)) = 2
    /\ Len(normalized.messages.out) >= 4

\* C16: an item with no id is dropped: no record the normalizer returns is
\* without an id, and no persisted message is without one.
NoIdDropped ==
    /\ normalized.mdone /\ ~normalized.messages.err =>
           \A k \in 1..Len(normalized.messages.out) :
               normalized.messages.out[k].id # Null
    /\ normalized.sdone /\ ~normalized.statuses.err =>
           \A k \in 1..Len(normalized.statuses.out) :
               normalized.statuses.out[k].id # Null
    /\ \A i \in 1..Len(store) : store[i].message_id \notin {"", Null}

\* C10: normalization raises for no payload.
NormalizerNeverRaises ==
    /\ normalized.mdone => ~normalized.messages.err
    /\ normalized.sdone => ~normalized.statuses.err

----------------------------------------------------------------------------
(* Properties of the batch loader *)

\* the statuses that the status records of a payload carry for an id, in
\* source order
StatusesFor(p, id) ==
    LET all == SourceItems(p, "statuses")
    IN  SelectSeq([k \in 1..Len(all) |->
                      IF all[k].id = id THEN all[k].status ELSE ""],
                  LAMBDA st : st # "")

\* C19: the messages of a payload are all reconciled before its status
\* records: a message that a payload inserts, and for which the same
\* payload has status records, ends with the status of the last of them.
MessagesBeforeStatuses ==
    [][\A p \in LoadFiles :
          ProcessFile(p) =>
            \A id \in {"m1", "m2", "m3"} :
                /\ ~findOne(store, id) /\ findOne(store', id)
                /\ StatusesFor(p, id) # <<>>
                => store'[Min(Matching(store', id))].status
                     = StatusesFor(p, id)[Len(StatusesFor(p, id))]]_vars

----------------------------------------------------------------------------
(* Properties of the conversation listing *)

\* the list has one entry per conversation, each with a message of the
\* conversation that has its greatest timestamp, latest conversation first
LatestFirst(l, s) ==
    /\ Len(l) = Cardinality(WaIds(s))
    /\ {l[n].wa_id : n \in 1..Len(l)} = WaIds(s)
    /\ \A n \in 1..Len(l) :
         \E i \in Group(s, l[n].wa_id) :
            /\ l[n].lastMessage._id = s[i]._id
            /\ l[n].lastMessage.timestamp = s[i].timestamp
            /\ \A k \in Group(s, l[n].wa_id) : s[i].timestamp >= s[k].timestamp
    /\ SortedDesc(l)

\* C9: every listing has exactly one entry per conversation, carrying the
\* conversation's message of greatest timestamp, ordered by it descending.
ListingLatestFirst ==
    [][reply'.op = "conversations" /\ reply' # reply
       => LatestFirst(reply'.list, store)]_vars

====
